---- MODULE Spec2Model ----
\* A model of src/dmg_background.py: the RGBA canvas and set_pixel, the
\* anti-aliased line, circle and chevron rasterizers, the PNG encoder, and
\* main's pipeline from allocation to the written file.
\*
\* Arithmetic.  set_pixel's blend and main's gradient are computed in IEEE-754
\* binary64 exactly as Python computes them (the F... operators below), because
\* their results depend on the rounding of each float operation.  The
\* rasterizers' geometry is computed in exact rational arithmetic over
\* coordinates given in units of 1/Unit pixel.  The float computation of the
\* source takes the same decisions, and passes the same alphas to set_pixel,
\* wherever no rounding error can tip a comparison or a truncation: that is
\* the case for every line, circle and chevron drawn below, the four lines of
\* main's arrow included.  It differs at ties, which the inputs below avoid:
\* a line thinner than two pixels through a pixel centre (the float distance
\* is some 1e-16 instead of 0), and a line whose length is rational (dx, dy a
\* Pythagorean pair), where a * (thickness / 2 - dist) is a whole number that
\* the floats miss by one.
EXTENDS Integers, Sequences, FiniteSets, TLC


\* F applied to the value of e, which is computed once
Strict(e, F(_)) == CHOOSE r \in {F(v) : v \in {e}} : TRUE
Strict2(e1, e2, F(_, _)) == CHOOSE r \in {F(v, w) : v \in {e1}, w \in {e2}} : TRUE

\* ---------- naturals of any size: little-endian sequences of limbs ----------
LimbBits == 13
Base == 8192

Pow2(n) == 2 ^ n

Limb(x, i) == IF i >= 1 /\ i <= Len(x) THEN x[i] ELSE 0

RECURSIVE TrimLen(_, _)
TrimLen(x, n) == IF n > 0 /\ x[n] = 0 THEN TrimLen(x, n - 1) ELSE n

BTrimV(x) == SubSeq(x, 1, TrimLen(x, Len(x)))
BTrim(x) == Strict(x, LAMBDA v : BTrimV(v))

RECURSIVE Carry(_, _, _)
Carry(cols, i, c) ==
    IF i > Len(cols)
    THEN IF c = 0 THEN <<>> ELSE <<c % Base>> \o Carry(cols, i, c \div Base)
    ELSE Strict(cols[i] + c, LAMBDA v : <<v % Base>> \o Carry(cols, i + 1, v \div Base))

\* the natural with the given column sums (each below 2^30)
BCols(cols) == Strict(cols, LAMBDA v : BTrim(Carry(v, 1, 0)))

BFromInt(n) == BCols(<<n>>)

RECURSIVE BToIntFrom(_, _)
BToIntFrom(x, i) == IF i > Len(x) THEN 0 ELSE x[i] + Base * BToIntFrom(x, i + 1)
BToInt(x) == Strict(x, LAMBDA v : BToIntFrom(v, 1))

Max2(a, b) == IF a >= b THEN a ELSE b

BAddV(x, y) == BCols([i \in 1..Max2(Len(x), Len(y)) |-> Limb(x, i) + Limb(y, i)])
BAdd(x, y) == Strict2(x, y, LAMBDA v, w : BAddV(v, w))

RECURSIVE Borrow(_, _, _, _)
Borrow(x, y, i, b) ==
    IF i > Len(x) THEN <<>>
    ELSE Strict(x[i] - Limb(y, i) - b,
                LAMBDA v : IF v < 0 THEN <<v + Base>> \o Borrow(x, y, i + 1, 1)
                                    ELSE <<v>> \o Borrow(x, y, i + 1, 0))

\* x - y, for x >= y
BSub(x, y) == Strict2(x, y, LAMBDA v, w : BTrim(Borrow(v, w, 1, 0)))

RECURSIVE BCmpFrom(_, _, _)
BCmpFrom(x, y, i) ==
    IF i = 0 THEN 0
    ELSE IF x[i] < y[i] THEN -1
    ELSE IF x[i] > y[i] THEN 1
    ELSE BCmpFrom(x, y, i - 1)

BCmpV(x, y) ==
    IF Len(x) < Len(y) THEN -1
    ELSE IF Len(x) > Len(y) THEN 1
    ELSE BCmpFrom(x, y, Len(x))

\* -1, 0, 1 as x <, =, > y
BCmp(x, y) == Strict2(x, y, LAMBDA v, w : BCmpV(v, w))

RECURSIVE ColSum(_, _, _, _)
ColSum(x, y, k, i) ==
    IF i > Len(x) \/ i > k THEN 0
    ELSE Limb(x, i) * Limb(y, k + 1 - i) + ColSum(x, y, k, i + 1)

BMulV(x, y) ==
    IF Len(x) = 0 \/ Len(y) = 0 THEN <<>>
    ELSE BCols([k \in 1..(Len(x) + Len(y)) |-> ColSum(x, y, k, 1)])
BMul(x, y) == Strict2(x, y, LAMBDA v, w : BMulV(v, w))

BShlV(x, n) ==
    IF Len(x) = 0 THEN <<>>
    ELSE [i \in 1..(n \div LimbBits) |-> 0]
            \o BCols([i \in 1..Len(x) |-> x[i] * Pow2(n % LimbBits)])
\* x * 2^n
BShl(x, n) == Strict2(x, n, LAMBDA v, w : BShlV(v, w))

BShrV(x, n) ==
    LET q == n \div LimbBits
        r == n % LimbBits
    IN IF q >= Len(x) THEN <<>>
       ELSE BTrim([i \in 1..(Len(x) - q) |->
                (x[i + q] \div Pow2(r)) + (Limb(x, i + q + 1) % Pow2(r)) * Pow2(LimbBits - r)])
\* floor(x / 2^n)
BShr(x, n) == Strict2(x, n, LAMBDA v, w : BShrV(v, w))

RECURSIVE IntBitLen(_)
IntBitLen(n) == IF n = 0 THEN 0 ELSE 1 + IntBitLen(n \div 2)

BBitLenV(x) == IF Len(x) = 0 THEN 0 ELSE (Len(x) - 1) * LimbBits + IntBitLen(x[Len(x)])
BBitLen(x) == Strict(x, LAMBDA v : BBitLenV(v))

BBit(x, i) == (Limb(x, i \div LimbBits + 1) \div Pow2(i % LimbBits)) % 2

\* some bit of x below position n is set
BLowSet(x, n) ==
    \/ \E i \in 1..Len(x) : i <= n \div LimbBits /\ x[i] # 0
    \/ Limb(x, n \div LimbBits + 1) % Pow2(n % LimbBits) # 0

\* ---------- IEEE-754 binary64, round to nearest even ----------
Prec == 53
FZero == [s |-> 0, m |-> <<>>, e |-> 0]

FRoundV(s, n, e, sticky, len) ==
    IF len = 0 THEN FZero
    ELSE IF len <= Prec
    THEN [s |-> s, m |-> BShl(n, Prec - len), e |-> e - (Prec - len)]
    ELSE Strict(BShr(n, len - Prec), LAMBDA q :
           Strict(IF BBit(n, len - Prec - 1) = 1
                      /\ (sticky \/ BLowSet(n, len - Prec - 1) \/ BBit(q, 0) = 1)
                  THEN BAdd(q, <<1>>) ELSE q,
                  LAMBDA q1 : IF BBitLen(q1) > Prec
                              THEN [s |-> s, m |-> BShr(q1, 1), e |-> e + (len - Prec) + 1]
                              ELSE [s |-> s, m |-> q1, e |-> e + (len - Prec)]))

\* the double nearest to (-1)^s * n * 2^e, or, with sticky, nearest to a value
\* strictly between n * 2^e and (n + 1) * 2^e
FRound(s, n, e, sticky) ==
    Strict2(n, <<s, e, sticky>>, LAMBDA v, w : FRoundV(w[1], v, w[2], w[3], BBitLen(v)))

FFromInt(n) == IF n < 0 THEN FRound(1, BFromInt(-n), 0, FALSE)
                        ELSE FRound(0, BFromInt(n), 0, FALSE)

FNegV(x) == IF Len(x.m) = 0 THEN x ELSE [x EXCEPT !.s = 1 - x.s]
FNeg(x) == Strict(x, LAMBDA v : FNegV(v))

FMulV(x, y) ==
    IF Len(x.m) = 0 \/ Len(y.m) = 0 THEN FZero
    ELSE FRound((x.s + y.s) % 2, BMul(x.m, y.m), x.e + y.e, FALSE)
FMul(x, y) == Strict2(x, y, LAMBDA v, w : FMulV(v, w))

FAddAligned(x, y, e, a, b, c) ==
    IF x.s = y.s THEN FRound(x.s, BAdd(a, b), e, FALSE)
    ELSE IF c = 0 THEN FZero
    ELSE IF c > 0 THEN FRound(x.s, BSub(a, b), e, FALSE)
    ELSE FRound(y.s, BSub(b, a), e, FALSE)

FAddV(x, y) ==
    IF Len(x.m) = 0 THEN y
    ELSE IF Len(y.m) = 0 THEN x
    ELSE Strict2(BShl(x.m, x.e - (IF x.e < y.e THEN x.e ELSE y.e)),
                 BShl(y.m, y.e - (IF x.e < y.e THEN x.e ELSE y.e)),
                 LAMBDA a, b : FAddAligned(x, y, IF x.e < y.e THEN x.e ELSE y.e, a, b, BCmp(a, b)))
FAdd(x, y) == Strict2(x, y, LAMBDA v, w : FAddV(v, w))

FSub(x, y) == FAdd(x, FNeg(y))

FTruncV(x) ==
    IF Len(x.m) = 0 THEN 0
    ELSE Strict(IF x.e >= 0 THEN BToInt(BShl(x.m, x.e)) ELSE BToInt(BShr(x.m, -x.e)),
                LAMBDA n : IF x.s = 1 THEN -n ELSE n)
\* int(x): truncation toward zero
FTrunc(x) == Strict(x, LAMBDA v : FTruncV(v))

\* one quotient limb of r / d, for r < d * Base and d's top limb >= Base / 2:
\* the estimate from the leading limbs is at most 2 too large
RECURSIVE DivFix(_, _, _)
DivFix(r, d, q) == IF BCmp(BMul(d, BFromInt(q)), r) > 0 THEN DivFix(r, d, q - 1) ELSE q

DivDigit(r, d) ==
    Strict((Limb(r, Len(d) + 1) * Base + Limb(r, Len(d))) \div d[Len(d)],
           LAMBDA est : DivFix(r, d, IF est > Base - 1 THEN Base - 1 ELSE est))

\* <<the k limbs of floor(r * Base^k / d), remainder>>, for r < d
RECURSIVE DivLimbs(_, _, _)
DivLimbs(r, d, k) ==
    IF k = 0 THEN <<<<>>, r>>
    ELSE Strict(BShl(r, LimbBits), LAMBDA r1 :
           Strict(DivDigit(r1, d), LAMBDA q :
             Strict(DivLimbs(BSub(r1, BMul(d, BFromInt(q))), d, k - 1),
                    LAMBDA rest : <<rest[1] \o <<q>>, rest[2]>>)))

NormShift == 12
QuotLimbs == 5

FDivN(x, y, r0, d) ==
    Strict(DivLimbs(IF BCmp(r0, d) >= 0 THEN BSub(r0, d) ELSE r0, d, QuotLimbs),
           LAMBDA qr : FRound((x.s + y.s) % 2,
                              BTrim(qr[1] \o <<IF BCmp(r0, d) >= 0 THEN 1 ELSE 0>>),
                              x.e - y.e - QuotLimbs * LimbBits,
                              Len(qr[2]) # 0))

FDivV(x, y) ==
    IF Len(x.m) = 0 THEN FZero
    ELSE Strict2(BShl(x.m, NormShift), BShl(y.m, NormShift), LAMBDA r0, d : FDivN(x, y, r0, d))
FDiv(x, y) == Strict2(x, y, LAMBDA v, w : FDivV(v, w))

FOne == FFromInt(1)
F255 == FFromInt(255)

Min2(a, b) == IF a <= b THEN a ELSE b

\* ---------- the pixel buffer: a bytearray of RGBA pixels ----------
\* A buffer of n bytes is kept pixel by pixel: base[k] is the pixel that fills
\* row k (rows of w pixels), over[p] is pixel number p where it differs from
\* the fill of its row.  Two buffers are equal exactly when their bytes are.
VARIABLES
    pixels,     \* the canvas
    width,      \* its width in pixels
    height,     \* its height in pixels
    last,       \* the operation that produced this state, with its arguments
    calls,      \* the set_pixel calls <<x, y, alpha>> issued by that operation
    raised,     \* the exception that operation raised, or "none"
    ncalls,     \* number of operations so far
    raw,        \* the raw_data the last create_png built
    png,        \* the bytes the last create_png returned
    pc,         \* where main stands; "idle" outside main
    file,       \* the output file: whether it is open, and the bytes it holds
    stdout,     \* the lines main printed
    steps       \* the steps main has taken, in order

\* bytearray(width * height * 4)
bytearray(w, h) ==
    [n |-> w * h * 4, w |-> w, base |-> [k \in 1..h |-> <<0, 0, 0, 0>>], over |-> <<>>]

NumPixels(buf) == buf.n \div 4
Fill(buf, p) == buf.base[(p \div buf.w) + 1]
Pixel(buf, p) == IF p \in DOMAIN buf.over THEN buf.over[p] ELSE Fill(buf, p)
\* pixels[i] for 0 <= i < len(pixels)
Byte(buf, i) == Pixel(buf, i \div 4)[(i % 4) + 1]
\* the pixel a byte index denotes; a negative index counts from the end
PixelOf(buf, idx) == IF idx < 0 THEN (idx + buf.n) \div 4 ELSE idx \div 4

\* buf with the pixels in DOMAIN upd replaced by upd's values
WithPixels(buf, upd) ==
    Strict(upd @@ buf.over, LAMBDA f :
        [buf EXCEPT !.over = [p \in {q \in DOMAIN f : f[q] # Fill(buf, q)} |-> f[p]]])

\* ---------- set_pixel ----------
in_canvas_unchecked(w, h, x, y) == TRUE
in_canvas(w, h, x, y) == ~(x < 0 \/ x >= w \/ y < 0 \/ y >= h)

blend(src, dst, fa, fb) ==
    Min2(255, FTrunc(FAdd(FMul(FFromInt(src), fa), FMul(FFromInt(dst), fb))))

new_alpha_unsaturated(old_a, a) == old_a + a
new_alpha(old_a, a) == Min2(255, old_a + a)

\* the four bytes of a pixel holding old after set_pixel(..., r, g, b, a) on it
blended(old, r, g, b, a) ==
    IF old[4] = 0 THEN <<r, g, b, a>>
    ELSE Strict2(FDiv(FFromInt(a), F255), old, LAMBDA fa, o :
           Strict(FSub(FOne, fa), LAMBDA fb :
             <<blend(r, o[1], fa, fb), blend(g, o[2], fa, fb), blend(b, o[3], fa, fb),
               new_alpha(o[4], a)>>))

\* set_pixel(buf, w, h, x, y, r, g, b, al) for every call <<x, y, al>> of cs,
\* a set of calls on distinct pixels, so that their order is immaterial
set_pixels(buf, w, h, cs, r, g, b) ==
    Strict({<<PixelOf(buf, (c[2] * w + c[1]) * 4), c[3]>> :
              c \in {d \in cs : /\ in_canvas(w, h, d[1], d[2])
                                /\ (d[2] * w + d[1]) * 4 < buf.n
                                /\ (d[2] * w + d[1]) * 4 >= -buf.n}},
           LAMBDA ts :
             WithPixels(buf, [p \in {t[1] : t \in ts} |->
                                blended(Pixel(buf, p), r, g, b, (CHOOSE t \in ts : t[1] = p)[2])]))

set_pixel(buf, w, h, x, y, r, g, b, a) == set_pixels(buf, w, h, {<<x, y, a>>}, r, g, b)

\* ---------- the rasterizers ----------
\* Coordinates, thickness and radius are given in units of 1/Unit pixel.  A
\* squared distance is a pair of naturals N, D standing for N / D units^2.
Unit == 10
Abs(n) == IF n < 0 THEN -n ELSE n
\* int(n / d), which truncates toward zero
TruncDiv(n, d) == IF n >= 0 THEN n \div d ELSE -((-n) \div d)
Sq(n) == Strict(BFromInt(Abs(n)), LAMBDA v : BMul(v, v))
BOne == <<1>>

\* the sign of 2 * sqrt(N / D) - t2
CmpDist(N, D, t2) ==
    IF t2 < 0 THEN 1 ELSE BCmp(BMul(<<4>>, N), BMul(Sq(t2), D))

\* int(a * (t2 / 2 - sqrt(N / D)) / Unit) where that is not negative: the
\* largest k in lo..hi with 2 * a * sqrt(N / D) <= a * t2 - 2 * k * Unit
RECURSIVE EdgeSearch(_, _, _, _, _, _)
EdgeSearch(lo, hi, a, t2, N, D) ==
    IF lo >= hi THEN lo
    ELSE LET mid == (lo + hi + 1) \div 2
         IN  IF CmpDist(BMul(Sq(a), N), D, a * t2 - 2 * mid * Unit) <= 0
             THEN EdgeSearch(mid, hi, a, t2, N, D)
             ELSE EdgeSearch(lo, mid - 1, a, t2, N, D)
edge_alpha_full(a, t2, N, D) == a
edge_alpha(a, t2, N, D) == EdgeSearch(0, a, a, t2, N, D)

\* the alpha set_pixel is called with for a pixel at distance sqrt(N / D) from
\* the shape whose edge is at t2 / 2; 0 when it is not called
cover(a, t2, N, D) ==
    IF CmpDist(N, D, t2) < 0
    THEN IF CmpDist(N, D, t2 - 2 * Unit) > 0 THEN edge_alpha(a, t2, N, D) ELSE a
    ELSE 0

Outcome(buf, cs, exc) == [pixels |-> buf, calls |-> cs, raised |-> exc]

zero_length_never(dx, dy) == FALSE
zero_length(dx, dy) == dx * dx + dy * dy = 0

unclamped(tn, l2) == tn
\* max(0, min(1, t)) for t = tn / l2
clamp(tn, l2) == Max2(0, Min2(l2, tn))

\* the squared distance, over l2^2, of pixel (px, py) to its closest point on the segment
line_dist(px, py, x1, y1, dx, dy, l2) ==
    LET ux == px * Unit - x1
        uy == py * Unit - y1
        tc == clamp(ux * dx + uy * dy, l2)
    IN  BAdd(Sq(ux * l2 - tc * dx), Sq(uy * l2 - tc * dy))

line_calls(w, h, x1, y1, x2, y2, thickness, a) ==
    LET dx == x2 - x1
        dy == y2 - y1
        l2 == dx * dx + dy * dy
        half_t2 == thickness + 2 * Unit
        min_x == Max2(0, TruncDiv(2 * Min2(x1, x2) - half_t2, 2 * Unit))
        max_x == Min2(w - 1, TruncDiv(2 * Max2(x1, x2) + half_t2, 2 * Unit))
        min_y == Max2(0, TruncDiv(2 * Min2(y1, y2) - half_t2, 2 * Unit))
        max_y == Min2(h - 1, TruncDiv(2 * Max2(y1, y2) + half_t2, 2 * Unit))
    IN  Strict(Sq(l2), LAMBDA D :
          {c \in {<<px, py, Strict(line_dist(px, py, x1, y1, dx, dy, l2),
                                   LAMBDA N : cover(a, thickness, N, D))>> :
                     px \in min_x..max_x, py \in min_y..max_y} : c[3] > 0})

draw_thick_line(buf, w, h, x1, y1, x2, y2, thickness, r, g, b, a) ==
    IF zero_length(x2 - x1, y2 - y1) THEN Outcome(buf, {}, "none")
    ELSE IF (x2 - x1) * (x2 - x1) + (y2 - y1) * (y2 - y1) = 0
    THEN Outcome(buf, {}, "ZeroDivisionError")      \* nx = -dy / length
    ELSE Strict(line_calls(w, h, x1, y1, x2, y2, thickness, a), LAMBDA cs :
           Outcome(set_pixels(buf, w, h, cs, r, g, b), cs, "none"))

circle_calls(w, h, cx, cy, radius, a) ==
    {c \in {<<px, py, Strict(BAdd(Sq(px * Unit - cx), Sq(py * Unit - cy)),
                             LAMBDA N : cover(a, 2 * radius, N, BOne))>> :
               px \in Max2(0, TruncDiv(cx - radius - Unit, Unit))
                      .. (Min2(w, TruncDiv(cx + radius + 2 * Unit, Unit)) - 1),
               py \in Max2(0, TruncDiv(cy - radius - Unit, Unit))
                      .. (Min2(h, TruncDiv(cy + radius + 2 * Unit, Unit)) - 1)} : c[3] > 0}

draw_filled_circle(buf, w, h, cx, cy, radius, r, g, b, a) ==
    Strict(circle_calls(w, h, cx, cy, radius, a), LAMBDA cs :
      Outcome(set_pixels(buf, w, h, cs, r, g, b), cs, "none"))

\* the second of two calls, made on the canvas the first left, unless the first raised
Then(o1, F(_)) ==
    IF o1.raised # "none" THEN o1
    ELSE Strict(F(o1.pixels), LAMBDA o2 : Outcome(o2.pixels, o1.calls \cup o2.calls, o2.raised))

draw_chevron(buf, w, h, cx, cy, half_h, thickness, r, g, b, a) ==
    LET indent == (half_h * 6) \div 10
    IN  Then(draw_thick_line(buf, w, h, cx - indent, cy - half_h, cx + indent, cy,
                             thickness, r, g, b, a),
             LAMBDA p : draw_thick_line(p, w, h, cx + indent, cy, cx - indent, cy + half_h,
                                        thickness, r, g, b, a))

\* ---------- create_png ----------
\* struct.pack('>I', n)
pack_I(n) == <<(n \div 16777216) % 256, (n \div 65536) % 256, (n \div 256) % 256, n % 256>>

\* zlib.crc32: the register is a sequence of 32 bits, lowest first
CrcPolyLow == 33568         \* 0xEDB88320, low and high half
CrcPolyHigh == 60856
CrcPoly == [i \in 1..32 |-> IF i <= 16 THEN (CrcPolyLow \div Pow2(i - 1)) % 2
                                       ELSE (CrcPolyHigh \div Pow2(i - 17)) % 2]
Bits(reg) == <<>> \o reg
CrcShift(reg) ==
    IF reg[1] = 1 THEN Bits([i \in 1..32 |-> ((IF i < 32 THEN reg[i + 1] ELSE 0) + CrcPoly[i]) % 2])
                  ELSE Bits([i \in 1..32 |-> IF i < 32 THEN reg[i + 1] ELSE 0])
RECURSIVE CrcShifts(_, _)
CrcShifts(reg, k) == IF k = 0 THEN reg ELSE Strict(CrcShift(reg), LAMBDA v : CrcShifts(v, k - 1))
CrcByte(reg, byte) ==
    Strict(Bits([i \in 1..32 |-> IF i <= 8 THEN (reg[i] + (byte \div Pow2(i - 1))) % 2 ELSE reg[i]]),
           LAMBDA v : CrcShifts(v, 8))
RECURSIVE CrcRange(_, _, _, _)
CrcRange(reg, data, i, j) ==
    IF i > j THEN reg ELSE Strict(CrcByte(reg, data[i]), LAMBDA v : CrcRange(v, data, i + 1, j))
CrcBlock == 8
RECURSIVE CrcBlocks(_, _, _)
CrcBlocks(reg, data, i) ==
    IF i > Len(data) THEN reg
    ELSE Strict(CrcRange(reg, data, i, Min2(Len(data), i + CrcBlock - 1)),
                LAMBDA v : CrcBlocks(v, data, i + CrcBlock))
BitsByte(reg, k) ==
    reg[k + 1] + 2 * reg[k + 2] + 4 * reg[k + 3] + 8 * reg[k + 4]
      + 16 * reg[k + 5] + 32 * reg[k + 6] + 64 * reg[k + 7] + 128 * reg[k + 8]
\* struct.pack('>I', zlib.crc32(data) & 0xffffffff)
crc32(data) ==
    Strict(CrcBlocks([i \in 1..32 |-> 1], data, 1), LAMBDA v :
        <<255 - BitsByte(v, 24), 255 - BitsByte(v, 16), 255 - BitsByte(v, 8), 255 - BitsByte(v, 0)>>)

chunk_crc_of_data(chunk_type, data) == pack_I(Len(data)) \o chunk_type \o data \o crc32(data)
chunk(chunk_type, data) == pack_I(Len(data)) \o chunk_type \o data \o crc32(chunk_type \o data)

header == <<137, 80, 78, 71, 13, 10, 26, 10>>      \* b'\x89PNG\r\n\x1a\n'
IHDR == <<73, 72, 68, 82>>
IDAT == <<73, 68, 65, 84>>
IEND == <<73, 69, 78, 68>>

scan_index_no_stride(y, w, x) == (y + x) * 4
scan_index(y, w, x) == (y * w + x) * 4

\* raw_data: per row the filter byte 0, then pixels[idx:idx+4] for each x
raw_data(w, h, buf) ==
    Bits([i \in 1..(h * (1 + 4 * w)) |->
            LET y == (i - 1) \div (1 + 4 * w)
                k == (i - 1) % (1 + 4 * w)
            IN  IF k = 0 THEN 0 ELSE Byte(buf, scan_index(y, w, (k - 1) \div 4) + ((k - 1) % 4))])

\* the outputs zlib.compress(data, 9) may give: the two header bytes of a zlib
\* stream at level 9 and a body; the encoder frames it without looking inside
MaxBody == 1
ZlibBodies == UNION {[1..k -> {0, 255}] : k \in 0..MaxBody}
zlib_compress(data) == {<<120, 218>> \o z : z \in ZlibBodies}

\* create_png, given the output z of zlib.compress
create_png(w, h, buf, z) ==
    header \o chunk(IHDR, pack_I(w) \o pack_I(h) \o <<8, 6, 0, 0, 0>>) \o chunk(IDAT, z) \o chunk(IEND, <<>>)

\* ---------- set_pixel called in any order on a small canvas ----------
CanvasW == 5
CanvasH == 4
MaxCalls == 3
Colours == {<<3, 200, 255>>, <<0, 128, 77>>}
Alphas == {0, 5, 200}
\* the corners of the canvas and the four positions just outside it
Positions ==
    {<<0, 0>>, <<CanvasW - 1, CanvasH - 1>>,
     <<-1, 1>>, <<CanvasW, 0>>, <<0, -1>>, <<0, CanvasH>>}

vars == <<pixels, width, height, last, calls, raised, ncalls, raw, png, pc, file, stdout, steps>>
pngVars == <<raw, png>>
mainVars == <<pc, file, stdout, steps>>

NoOp == [op |-> "none"]
NoFile == [state |-> "absent", data |-> <<>>]
NoPng == raw = <<>> /\ png = <<>>
NotInMain == pc = "idle" /\ file = NoFile /\ stdout = <<>> /\ steps = <<>>

InitPixel ==
    /\ width = CanvasW
    /\ height = CanvasH
    /\ pixels = bytearray(CanvasW, CanvasH)
    /\ last = NoOp
    /\ calls = {}
    /\ raised = "none"
    /\ ncalls = 0
    /\ NoPng
    /\ NotInMain

SetPixel(x, y, c, a) ==
    /\ ncalls < MaxCalls
    /\ pixels' = set_pixel(pixels, width, height, x, y, c[1], c[2], c[3], a)
    /\ last' = [op |-> "set_pixel", x |-> x, y |-> y, r |-> c[1], g |-> c[2], b |-> c[3], a |-> a]
    /\ calls' = {<<x, y, a>>}
    /\ raised' = "none"
    /\ ncalls' = ncalls + 1
    /\ UNCHANGED <<width, height, pngVars, mainVars>>

NextPixel == \E pos \in Positions, c \in Colours, a \in Alphas : SetPixel(pos[1], pos[2], c, a)

SpecPixel == InitPixel /\ [][NextPixel]_vars

\* ---------- one primitive drawn on a small canvas ----------
LineXs == {-30, -15, 20, 35, 70}
LineYs == {-10, 15, 20, 50}
Thicknesses == {30, 40}
LineAlphas == {1, 200}
CircleXs == {-30, -10, 0, 15, 20}
CircleYs == {0, 20, 50}
Radii == {15, 20, 25, 55}
CircleAlphas == {0, 1, 2, 200}
ChevronXs == {-30, 20, 70}
ChevronYs == {-30, 25}
HalfHeights == {0, 10, 20}
Ink == <<200, 210, 230>>

\* a canvas that earlier set_pixel calls left partly painted
Painted ==
    WithPixels(bytearray(CanvasW, CanvasH),
               (0 :> <<42, 42, 45, 255>>) @@ (CanvasW + 2 :> <<3, 200, 255, 5>>)
                 @@ (CanvasW * CanvasH - 1 :> <<0, 128, 77, 200>>))

InitRaster ==
    /\ width = CanvasW
    /\ height = CanvasH
    /\ pixels \in {bytearray(CanvasW, CanvasH), Painted}
    /\ last = NoOp
    /\ calls = {}
    /\ raised = "none"
    /\ ncalls = 0
    /\ NoPng
    /\ NotInMain

Drawn(o, op) ==
    /\ pixels' = o.pixels
    /\ calls' = o.calls
    /\ raised' = o.raised
    /\ last' = op
    /\ ncalls' = 1
    /\ UNCHANGED <<width, height, pngVars, mainVars>>

PlotPixel(x, y, c, a) == ncalls = 0 /\ SetPixel(x, y, c, a)

DrawLine(x1, y1, x2, y2, t, a) ==
    /\ ncalls = 0
    /\ \E o \in {draw_thick_line(pixels, width, height, x1, y1, x2, y2, t, Ink[1], Ink[2], Ink[3], a)} :
           Drawn(o, [op |-> "draw_thick_line", x1 |-> x1, y1 |-> y1, x2 |-> x2, y2 |-> y2,
                     thickness |-> t, a |-> a])

DrawCircle(cx, cy, radius, a) ==
    /\ ncalls = 0
    /\ \E o \in {draw_filled_circle(pixels, width, height, cx, cy, radius, Ink[1], Ink[2], Ink[3], a)} :
           Drawn(o, [op |-> "draw_filled_circle", cx |-> cx, cy |-> cy, radius |-> radius, a |-> a])

DrawChevron(cx, cy, half_h, t, a) ==
    /\ ncalls = 0
    /\ \E o \in {draw_chevron(pixels, width, height, cx, cy, half_h, t, Ink[1], Ink[2], Ink[3], a)} :
           Drawn(o, [op |-> "draw_chevron", cx |-> cx, cy |-> cy, half_h |-> half_h,
                     thickness |-> t, a |-> a])

NextRaster ==
    \/ \E pos \in Positions, c \in Colours, a \in Alphas : PlotPixel(pos[1], pos[2], c, a)
    \/ \E cx \in CircleXs, cy \in CircleYs, radius \in Radii, a \in CircleAlphas :
          DrawCircle(cx, cy, radius, a)
    \/ \E cx \in ChevronXs, cy \in ChevronYs, half_h \in HalfHeights, t \in Thicknesses, a \in LineAlphas :
          DrawChevron(cx, cy, half_h, t, a)
    \/ \E x1 \in LineXs, y1 \in LineYs, x2 \in LineXs, y2 \in LineYs, t \in Thicknesses, a \in LineAlphas :
          DrawLine(x1, y1, x2, y2, t, a)

SpecRaster == InitRaster /\ [][NextRaster]_vars

\* ---------- create_png on small buffers ----------
MaxPngW == 2
MaxPngH == 2
MaxShift == 7
\* a buffer of w * h * 4 bytes, all different: byte i is shift + 7 * i
Patterned(w, h, shift) ==
    WithPixels(bytearray(w, h),
               [p \in 0..(w * h - 1) |-> [j \in 1..4 |-> (shift + 7 * (4 * p + j - 1)) % 256]])
Buffers(w, h) == {bytearray(w, h)} \cup {Patterned(w, h, shift) : shift \in 1..MaxShift}

InitPng ==
    /\ width \in 0..MaxPngW
    /\ height \in 0..MaxPngH
    /\ pixels \in Buffers(width, height)
    /\ last = NoOp
    /\ calls = {}
    /\ raised = "none"
    /\ ncalls = 0
    /\ NoPng
    /\ NotInMain

CreatePng(z) ==
    /\ last = NoOp
    /\ raw' = raw_data(width, height, pixels)
    /\ png' = create_png(width, height, pixels, z)
    /\ last' = [op |-> "create_png", z |-> z]
    /\ UNCHANGED <<pixels, width, height, calls, raised, ncalls, mainVars>>

NextPng == \E z \in zlib_compress(raw_data(width, height, pixels)) : CreatePng(z)

SpecPng == InitPng /\ [][NextPng]_vars

\* ---------- main ----------
WIDTH == 660
HEIGHT == 400
APP_ICON_X == 160
APPS_ICON_X == 500
ICON_Y == 190

gradient_channel_to_last_row(from, y) ==
    FTrunc(FAdd(FFromInt(from), FMul(FDiv(FFromInt(y), FFromInt(HEIGHT - 1)), FFromInt(6))))
\* int(from + t * 6) for t = y / HEIGHT
gradient_channel(from, y) ==
    FTrunc(FAdd(FFromInt(from), FMul(FDiv(FFromInt(y), FFromInt(HEIGHT)), FFromInt(6))))

\* the loop over y and x: every pixel of row y is assigned the same four bytes
gradient(buf) ==
    [buf EXCEPT !.base = Bits([k \in 1..HEIGHT |->
                                 <<gradient_channel(42, k - 1), gradient_channel(42, k - 1),
                                   gradient_channel(45, k - 1), 255>>]),
                !.over = <<>>]

draw_arrow(buf, w, h) ==
    LET cx == (APP_ICON_X + APPS_ICON_X) \div 2
        cy == ICON_Y
        chevron_half_h == 28
        chevron_thickness == 8
        spacing == 22
    IN  Then(draw_chevron(buf, w, h, (cx - spacing \div 2) * Unit, cy * Unit, chevron_half_h * Unit,
                          chevron_thickness * Unit, 200, 210, 230, 200),
             LAMBDA p : draw_chevron(p, w, h, (cx + spacing \div 2) * Unit, cy * Unit,
                                     chevron_half_h * Unit, chevron_thickness * Unit,
                                     200, 210, 230, 200))

exit_with_leak(f) == f
\* leaving the with block closes the file
exit_with(f) == [f EXCEPT !.state = "closed"]

InitMain ==
    /\ width = WIDTH
    /\ height = HEIGHT
    /\ pixels = bytearray(0, 0)
    /\ last = NoOp
    /\ calls = {}
    /\ raised = "none"
    /\ ncalls = 0
    /\ NoPng
    /\ pc = "allocate"
    /\ file = NoFile
    /\ stdout = <<>>
    /\ steps = <<>>

Step(at, to) == pc = at /\ pc' = to /\ steps' = Append(steps, at)

MainAllocate ==
    /\ Step("allocate", "gradient")
    /\ pixels' = bytearray(WIDTH, HEIGHT)
    /\ UNCHANGED <<width, height, last, calls, raised, ncalls, pngVars, file, stdout>>

MainGradient ==
    /\ Step("gradient", "arrow")
    /\ pixels' = gradient(pixels)
    /\ UNCHANGED <<width, height, last, calls, raised, ncalls, pngVars, file, stdout>>

MainArrow ==
    /\ Step("arrow", "encode")
    /\ pixels' = draw_arrow(pixels, WIDTH, HEIGHT).pixels
    /\ UNCHANGED <<width, height, last, calls, raised, ncalls, pngVars, file, stdout>>

MainEncode(z) ==
    /\ Step("encode", "open")
    /\ png' = create_png(WIDTH, HEIGHT, pixels, z)
    /\ UNCHANGED <<pixels, width, height, last, calls, raised, ncalls, raw, file, stdout>>

\* open(out_path, 'wb') succeeds and truncates the file
MainOpen ==
    /\ Step("open", "write")
    /\ file' = [state |-> "open", data |-> <<>>]
    /\ UNCHANGED <<pixels, width, height, last, calls, raised, ncalls, pngVars, stdout>>

\* open raises; there is no handler in main
MainOpenFails ==
    /\ Step("open", "failed")
    /\ raised' = "OSError"
    /\ UNCHANGED <<pixels, width, height, last, calls, ncalls, pngVars, file, stdout>>

\* f.write(png_data) returns; the first k bytes have reached the file, the rest is buffered
MainWrite(k) ==
    /\ Step("write", "close")
    /\ file' = [file EXCEPT !.data = SubSeq(png, 1, k)]
    /\ UNCHANGED <<pixels, width, height, last, calls, raised, ncalls, pngVars, stdout>>

\* f.write(png_data) raises after k bytes
MainWriteFails(k) ==
    /\ Step("write", "close")
    /\ k < Len(png)
    /\ file' = [file EXCEPT !.data = SubSeq(png, 1, k)]
    /\ raised' = "OSError"
    /\ UNCHANGED <<pixels, width, height, last, calls, ncalls, pngVars, stdout>>

\* the with block is left: the buffered bytes are flushed and the file is closed
MainClose ==
    /\ Step("close", IF raised = "none" THEN "print" ELSE "failed")
    /\ file' = exit_with(IF raised = "none" THEN [file EXCEPT !.data = png] ELSE file)
    /\ UNCHANGED <<pixels, width, height, last, calls, raised, ncalls, pngVars, stdout>>

\* the flush on leaving the with block raises after k bytes in all; the file is closed all the same
MainCloseFails(k) ==
    /\ Step("close", "failed")
    /\ raised = "none"
    /\ k >= Len(file.data) /\ k < Len(png)
    /\ file' = exit_with([file EXCEPT !.data = SubSeq(png, 1, k)])
    /\ raised' = "OSError"
    /\ UNCHANGED <<pixels, width, height, last, calls, ncalls, pngVars, stdout>>

MainPrint ==
    /\ Step("print", "done")
    /\ stdout' = Append(stdout, "Created")
    /\ UNCHANGED <<pixels, width, height, last, calls, raised, ncalls, pngVars, file>>

NextMain ==
    \/ MainAllocate
    \/ MainGradient
    \/ MainArrow
    \/ \E z \in zlib_compress(raw_data(WIDTH, HEIGHT, pixels)) : MainEncode(z)
    \/ MainOpen
    \/ MainOpenFails
    \/ \E k \in 0..Len(png) : MainWrite(k)
    \/ \E k \in 0..Len(png) : MainWriteFails(k)
    \/ MainClose
    \/ \E k \in 0..Len(png) : MainCloseFails(k)
    \/ MainPrint

SpecMain == InitMain /\ [][NextMain]_vars

AllPixels == 0..(width * height - 1)
Alpha(buf, p) == Pixel(buf, p)[4]
LastHit == last.op = "set_pixel" /\ in_canvas(width, height, last.x, last.y)
LastPixel == last.y * width + last.x

\* C1: under any sequence of set_pixel calls with inputs in 0..255, no pixel's
\* alpha exceeds 255, no call lowers a pixel's alpha, and the pixel a call
\* hits has afterwards at least that call's alpha.
C1_AlphaSaturates ==
    [][ /\ \A p \in AllPixels : Alpha(pixels', p) <= 255 /\ Alpha(pixels', p) >= Alpha(pixels, p)
        /\ LastHit' => Alpha(pixels', LastPixel') >= last'.a ]_vars

\* a second call of alpha 200 on a pixel saturated its alpha at 255
C1_Witness == LastHit /\ last.a = 200 /\ Alpha(pixels, LastPixel) = 255 /\ ncalls = 2


\* C2: set_pixel on an in-range pixel overwrites it when its alpha is 0, and
\* otherwise sets each colour channel to min(255, floor((src * a + dst * (255 - a)) / 255))
\* and the alpha to min(255, old + a); every other pixel keeps its value.
floor_blend(src, dst, a) == Min2(255, (src * a + dst * (255 - a)) \div 255)
floor_blended(old, r, g, b, a) ==
    IF old[4] = 0 THEN <<r, g, b, a>>
    ELSE <<floor_blend(r, old[1], a), floor_blend(g, old[2], a), floor_blend(b, old[3], a),
           Min2(255, old[4] + a)>>
C2_FloorBlend ==
    [][ LastHit' =>
          \A p \in AllPixels :
             Pixel(pixels', p) = IF p = LastPixel'
                                 THEN floor_blended(Pixel(pixels, p), last'.r, last'.g, last'.b, last'.a)
                                 ELSE Pixel(pixels, p) ]_vars

\* ---------- claims about the rasterizers ----------
IsLine == last.op = "draw_thick_line"
IsCircle == last.op = "draw_filled_circle"
IsChevron == last.op = "draw_chevron"
Degenerate == IsLine /\ last.x1 = last.x2 /\ last.y1 = last.y2
OnCanvas(x, y) == 0 <= x /\ x < width /\ 0 <= y /\ y < height

\* C7: draw_thick_line with identical end points, and draw_chevron with
\* half-height 0, leave the canvas as it was, call set_pixel for no pixel and
\* raise no error, whatever the thickness and the canvas contents.
C7_DegenerateDrawsNothing ==
    [][ Degenerate' \/ (IsChevron' /\ last'.half_h = 0)
          => pixels' = pixels /\ calls' = {} /\ raised' = "none" ]_vars

\* a zero-length line was drawn at a point inside a painted canvas
C7_Witness ==
    Degenerate /\ last.x1 = 20 /\ last.y1 = 20 /\ pixels = Painted /\ raised = "none"

\* pixel (px, py) is at distance less than thickness / 2 from the segment of line l
NearSegment(px, py, l) ==
    LET ux == px * Unit - l.x1
        uy == py * Unit - l.y1
        vx == px * Unit - l.x2
        vy == py * Unit - l.y2
        dx == l.x2 - l.x1
        dy == l.y2 - l.y1
        tn == ux * dx + uy * dy
        cross == ux * dy - uy * dx
        tt == l.thickness * l.thickness
    IN  IF tn <= 0 THEN 4 * (ux * ux + uy * uy) < tt
        ELSE IF tn >= dx * dx + dy * dy THEN 4 * (vx * vx + vy * vy) < tt
        ELSE cross * cross <= (tt * (dx * dx + dy * dy) - 1) \div 4

\* the projection of pixel (px, py) on the line of l falls between its end points
WithinEnds(px, py, l) ==
    LET tn == (px * Unit - l.x1) * (l.x2 - l.x1) + (py * Unit - l.y1) * (l.y2 - l.y1)
    IN  0 <= tn /\ tn <= (l.x2 - l.x1) * (l.x2 - l.x1) + (l.y2 - l.y1) * (l.y2 - l.y1)

\* C10 (as amended): for a segment of non-zero length every pixel
\* draw_thick_line paints is at distance less than thickness / 2 from the
\* segment; the caps are round, so a painted pixel may lie beyond an end point.
C10_WithinHalfThickness ==
    [][ IsLine' /\ ~Degenerate' => \A c \in calls' : NearSegment(c[1], c[2], last') ]_vars

\* a line lying inside the canvas painted a pixel beyond one of its end points
C10_Witness ==
    /\ IsLine /\ ~Degenerate
    /\ OnCanvas(last.x1 \div Unit, last.y1 \div Unit) /\ OnCanvas(last.x2 \div Unit, last.y2 \div Unit)
    /\ \E c \in calls : ~WithinEnds(c[1], c[2], last)

\* C10 (as stated): every painted pixel is at distance less than thickness / 2
\* from the segment and its unclamped projection parameter is within [0, 1].
C10_FlatCaps ==
    [][ IsLine' /\ ~Degenerate' =>
          \A c \in calls' : NearSegment(c[1], c[2], last') /\ WithinEnds(c[1], c[2], last') ]_vars

\* the point (x, y), in units, is outside the canvas
PointOutside(x, y) == x < 0 \/ x >= width * Unit \/ y < 0 \/ y >= height * Unit

\* the box x1..x2, y1..y2 grown by pad2 / 2 on every side contains no pixel centre's column or row
BoxOutside(x1, x2, y1, y2, pad2) ==
    \/ 2 * x2 + pad2 <= 0
    \/ 2 * x1 - pad2 >= 2 * (width - 1) * Unit
    \/ 2 * y2 + pad2 <= 0
    \/ 2 * y1 - pad2 >= 2 * (height - 1) * Unit

\* the stroke or disc of the last primitive lies wholly outside the canvas
ShapeOutside ==
    \/ IsLine /\ BoxOutside(Min2(last.x1, last.x2), Max2(last.x1, last.x2),
                            Min2(last.y1, last.y2), Max2(last.y1, last.y2), last.thickness)
    \/ IsCircle /\ BoxOutside(last.cx, last.cx, last.cy, last.cy, 2 * last.radius)
    \/ IsChevron /\ BoxOutside(last.cx - (last.half_h * 6) \div 10, last.cx + (last.half_h * 6) \div 10,
                               last.cy - last.half_h, last.cy + last.half_h, last.thickness)

\* every coordinate the last primitive was called with is outside the canvas
CoordinatesOutside ==
    \/ IsLine /\ PointOutside(last.x1, last.y1) /\ PointOutside(last.x2, last.y2)
    \/ IsCircle /\ PointOutside(last.cx, last.cy)
    \/ IsChevron /\ PointOutside(last.cx - (last.half_h * 6) \div 10, last.cy - last.half_h)
                 /\ PointOutside(last.cx + (last.half_h * 6) \div 10, last.cy)
                 /\ PointOutside(last.cx - (last.half_h * 6) \div 10, last.cy + last.half_h)

\* C3 (as amended): set_pixel outside [0,width) x [0,height) changes no byte;
\* a rasterizer calls set_pixel only for pixels of the canvas; and a line,
\* circle or chevron whose stroke or disc lies wholly outside the canvas
\* changes no pixel.
C3_Clipped ==
    [][ /\ last'.op = "set_pixel" /\ ~OnCanvas(last'.x, last'.y) => pixels' = pixels
        /\ IsLine' \/ IsCircle' \/ IsChevron' => \A c \in calls' : OnCanvas(c[1], c[2])
        /\ ShapeOutside' => pixels' = pixels /\ calls' = {} ]_vars

\* a line whose stroke is left of the canvas was drawn on a painted canvas
C3_Witness ==
    /\ IsLine /\ ~Degenerate /\ ShapeOutside /\ last.x1 = -30 /\ last.x2 = -30
    /\ pixels = Painted

\* C3 (as stated): set_pixel outside the canvas changes no byte, and a
\* primitive called with coordinates entirely outside the canvas changes no pixel.
C3_OutsideUnchanged ==
    [][ /\ last'.op = "set_pixel" /\ ~OnCanvas(last'.x, last'.y) => pixels' = pixels
        /\ IsLine' \/ IsCircle' \/ IsChevron' => \A c \in calls' : OnCanvas(c[1], c[2])
        /\ CoordinatesOutside' => pixels' = pixels ]_vars

\* four times the squared distance, in units, of pixel (px, py) from the centre of circle c
FromCentre4(px, py, c) ==
    4 * ((px * Unit - c.cx) * (px * Unit - c.cx) + (py * Unit - c.cy) * (py * Unit - c.cy))

\* the three pixels of C6, for the circle c and the calls cs it issued
BandAlphas(c, cs) ==
    \A px \in 0..(width - 1), py \in 0..(height - 1) :
        /\ 2 * c.radius - 3 * Unit >= 0
              /\ FromCentre4(px, py, c) = (2 * c.radius - 3 * Unit) * (2 * c.radius - 3 * Unit)
              => <<px, py, c.a>> \in cs
        /\ FromCentre4(px, py, c) = (2 * c.radius + Unit) * (2 * c.radius + Unit)
              => \A d \in cs : ~(d[1] = px /\ d[2] = py)
        /\ 2 * c.radius - Unit >= 0
              /\ FromCentre4(px, py, c) = (2 * c.radius - Unit) * (2 * c.radius - Unit)
              => \E d \in cs : d[1] = px /\ d[2] = py /\ 0 < d[3] /\ d[3] < c.a

\* C6 (as amended): for a circle of radius R and alpha a >= 2, a pixel of the
\* canvas at distance R - 1.5 from the centre is passed to set_pixel with alpha
\* a, one at distance R + 0.5 is not painted, and one at distance R - 0.5 is
\* painted with an alpha strictly between 0 and a.
C6_AntiAliasBand ==
    [][ IsCircle' /\ last'.a >= 2 => BandAlphas(last', calls') ]_vars

\* a circle of radius 2.5 around pixel (0,0): (1,0) full, (2,0) half, (3,0) untouched
C6_Witness ==
    /\ IsCircle /\ last.cx = 0 /\ last.cy = 0 /\ last.radius = 25 /\ last.a = 200
    /\ <<1, 0, 200>> \in calls /\ <<2, 0, 100>> \in calls
    /\ \A d \in calls : d[1] # 3 \/ d[2] # 0

\* C6 (as stated): the same for every alpha a.
C6_AntiAliasBandAnyAlpha ==
    [][ IsCircle' => BandAlphas(last', calls') ]_vars

\* ---------- claims about create_png ----------
Encoded == last.op = "create_png"
BufferBytes(buf) == [i \in 1..buf.n |-> Byte(buf, i - 1)]
\* data without the first byte of each row of 1 + 4 * w bytes
Defiltered(data, w, h) == [j \in 1..(4 * w * h) |-> data[j + ((j - 1) \div (4 * w)) + 1]]

\* C4: for every width, height and buffer of width * height * 4 bytes, the
\* raw scanline data has length height * (1 + 4 * width), every row starts
\* with the filter byte 0, and without the filter bytes it is the buffer, rows
\* top to bottom and RGBA bytes left to right.
C4_RawScanlines ==
    Encoded =>
        /\ Len(raw) = height * (1 + 4 * width)
        /\ \A y \in 0..(height - 1) : raw[y * (1 + 4 * width) + 1] = 0
        /\ Defiltered(raw, width, height) = BufferBytes(pixels)

\* a 2 x 2 buffer of sixteen different bytes was encoded
C4_Witness ==
    /\ Encoded /\ width = 2 /\ height = 2 /\ Len(raw) = 18
    /\ Cardinality({Byte(pixels, i) : i \in 0..15}) = 16
    /\ raw[10] = 0 /\ raw[11] = Byte(pixels, 8)

Field(data, i, n) == SubSeq(data, i, i + n - 1)
BigEndian(b) == ((b[1] * 256 + b[2]) * 256 + b[3]) * 256 + b[4]
\* the chunk that starts after the first off bytes of data
ChunkAt(data, off) ==
    LET len == BigEndian(Field(data, off + 1, 4))
    IN  [len |-> len, type |-> Field(data, off + 5, 4), payload |-> Field(data, off + 9, len),
         crc |-> Field(data, off + 9 + len, 4), end |-> off + 12 + len]
Checksummed(c) == Len(c.payload) = c.len /\ c.crc = crc32(c.type \o c.payload)

\* C5: the stream is the PNG signature, then exactly the chunks IHDR, IDAT,
\* IEND; each length field is the length of its payload and each CRC is that
\* of type + payload; the IHDR payload is (width, height, 8, 6, 0, 0, 0), the
\* IDAT payload is what zlib returned, and the IEND payload is empty.
C5_ChunkFraming ==
    Encoded =>
        /\ Len(png) = 8 + 25 + 12 + Len(last.z) + 12
        /\ Field(png, 1, 8) = <<137, 80, 78, 71, 13, 10, 26, 10>>
        /\ LET ihdr == ChunkAt(png, 8)
               idat == ChunkAt(png, 33)
               iend == ChunkAt(png, 45 + Len(last.z))
           IN  /\ ihdr.type = <<73, 72, 68, 82>> /\ ihdr.len = 13 /\ Checksummed(ihdr)
               /\ BigEndian(Field(ihdr.payload, 1, 4)) = width
               /\ BigEndian(Field(ihdr.payload, 5, 4)) = height
               /\ Field(ihdr.payload, 9, 5) = <<8, 6, 0, 0, 0>>
               /\ idat.type = <<73, 68, 65, 84>> /\ idat.payload = last.z /\ Checksummed(idat)
               /\ iend.type = <<73, 69, 78, 68>> /\ iend.len = 0 /\ Checksummed(iend)
               /\ iend.crc = <<174, 66, 96, 130>>
               /\ iend.end = Len(png)

\* a 2 x 1 image was encoded around a three-byte zlib stream
C5_Witness ==
    Encoded /\ width = 2 /\ height = 1 /\ Len(last.z) = 3 /\ Len(png) = 60

\* ---------- claims about main ----------
BottomLeft == (HEIGHT - 1) * WIDTH
Painting == pc \in {"arrow", "encode"}

\* C8 (as amended): in the canvas main hands to the encoder every pixel has
\* alpha 255, pixel (0,0) is RGB(42,42,45) and pixel (0,399) is RGB(47,47,50),
\* as both were before the arrow was drawn.
C8_FinalCanvas ==
    /\ Painting => /\ Pixel(pixels, 0) = <<42, 42, 45, 255>>
                   /\ Pixel(pixels, BottomLeft) = <<47, 47, 50, 255>>
    /\ pc = "encode" => \A p \in AllPixels : Alpha(pixels, p) = 255

\* the canvas is ready for the encoder, the arrow drawn: the pixel at the tip
\* of the left chevron and one on the right chevron are no longer background
C8_Witness ==
    /\ pc = "encode"
    /\ Pixel(pixels, ICON_Y * WIDTH + 335) # Fill(pixels, ICON_Y * WIDTH + 335)
    /\ Pixel(pixels, ICON_Y * WIDTH + 357) # Fill(pixels, ICON_Y * WIDTH + 357)
    /\ Pixel(pixels, BottomLeft) = <<47, 47, 50, 255>>

\* C8 (as stated): ... and pixel (0,399) is RGB(48,48,51).
C8_FinalCanvasAsStated ==
    /\ Painting => /\ Pixel(pixels, 0) = <<42, 42, 45, 255>>
                   /\ Pixel(pixels, BottomLeft) = <<48, 48, 51, 255>>
    /\ pc = "encode" => \A p \in AllPixels : Alpha(pixels, p) = 255

Order == <<"allocate", "gradient", "arrow", "encode", "open", "write", "close", "print">>
Finished == pc \in {"done", "failed"}

\* C9: main's steps run in the order allocate, gradient, arrow, encode, open,
\* write, none of them twice; once the file was opened it is closed when main
\* is left, also after a failed write; a failed open or write ends main with
\* the error, and the confirmation is printed only after the whole stream
\* was written and the file closed.
C9_FileDiscipline ==
    /\ Len(steps) <= Len(Order) /\ steps = SubSeq(Order, 1, Len(steps))
    /\ Finished /\ file.state # "absent" => file.state = "closed"
    /\ raised # "none" => raised = "OSError" /\ pc \in {"close", "failed"} /\ stdout = <<>>
    /\ pc = "failed" => raised = "OSError"
    /\ pc = "done" => raised = "none"
    /\ stdout # <<>> => pc = "done" /\ stdout = <<"Created">> /\ file = [state |-> "closed", data |-> png]

\* a write failed half way: main ended with the error, the file closed and short
C9_Witness ==
    /\ pc = "failed" /\ raised = "OSError" /\ file.state = "closed"
    /\ Len(file.data) = 30 /\ Len(png) > 30 /\ stdout = <<>>
    /\ steps = SubSeq(Order, 1, 7)
====
